---- MODULE Spec2Model ----
(***************************************************************************)
(* The real-time broadcast hub of src/main.py: ConnectionManager (the      *)
(* registry `active` with connect / disconnect / broadcast) and the        *)
(* per-connection driver websocket_endpoint.                               *)
(*                                                                         *)
(* The drivers are asyncio coroutines on one event loop: the code between  *)
(* two awaits runs without interruption, so every action below is one such *)
(* stretch of code, from the completion of one await (websocket.accept,    *)
(* connection.send_text, websocket.receive_text) to the suspension on the  *)
(* next one.  An await that completes without suspending is the schedule   *)
(* in which the same driver takes the next step at once.                   *)
(***************************************************************************)
EXTENDS Integers, Sequences, FiniteSets, TLC

\* Number of connections (one driver per connection; a websocket object is
\* created per handshake and never reused).
MaxConns == 2

\* Number of text frames one driver reads before its peer stops sending.
MaxMsgs == 2

Conns == 1..MaxConns

VARIABLES
    active,         \* ConnectionManager.active: the registry, a Python list
    pc,             \* per driver: the await it is suspended on, or its end
    site,           \* per driver: which call of broadcast it is in
    msg,            \* per driver: `message` of its current broadcast call
    snap,           \* per driver: list(self.active) of its current broadcast
    idx,            \* per driver: position of the for loop in the snapshot
    att,            \* per driver: targets send_text was called on, in order,
                    \*   by its current (or last) broadcast call
    startReg,       \* per driver: registry content when that call started
    failedIn,       \* per driver: targets whose send raised in that call
    removedAtStart, \* per driver: connections deregistered before that call
    lateReg,        \* per driver: connections registered while that call ran
    registered,     \* connections on which connect() completed
    removed,        \* connections on which disconnect() has been called
    removeLog,      \* per connection: the callers of disconnect() on it, in
                    \*   order, "send" or "driver" (the first two calls)
    sendFailed,     \* whether any send_text has raised so far
    events,         \* per driver: what happened on its connection, in order
    bcastLog,       \* per driver: the messages it called broadcast with
    recvd,          \* recvd[p][s]: chat texts of sender s delivered to p
    stalled,        \* peers that stopped reading: a send to them never ends
    raised          \* per driver: the exception that ended it, or "none"

vars == <<active, pc, site, msg, snap, idx, att, startReg, failedIn,
          removedAtStart, lateReg,
          registered, removed, removeLog, sendFailed, events, bcastLog,
          recvd, stalled, raised>>

Range(s) == {s[i] : i \in 1..Len(s)}

NoDup(s) == \A i, j \in 1..Len(s) : i # j => s[i] # s[j]

Last(s) == s[Len(s)]

----------------------------------------------------------------------------
\* Python list primitives used by ConnectionManager.

\* `x in list`
ListContains(a, c) == \E i \in 1..Len(a) : a[i] = c

\* list.remove(x): drops the first occurrence; ValueError when absent.
ListRemove(a, c) ==
    IF ListContains(a, c)
    THEN LET i == CHOOSE k \in 1..Len(a) :
                     a[k] = c /\ \A j \in 1..(k - 1) : a[j] # c
         IN  [list |-> SubSeq(a, 1, i - 1) \o SubSeq(a, i + 1, Len(a)),
              error |-> "none"]
    ELSE [list |-> a, error |-> "ValueError"]

----------------------------------------------------------------------------
\* ConnectionManager

\* connect(), after `await websocket.accept()`: self.active.append(websocket)
connect_noappend(a, c) == a
connect_twice(a, c) == Append(Append(a, c), c)
connect(a, c) == Append(a, c)

\* disconnect(): remove the websocket if it is in the list.
disconnect_unguarded(a, c) == ListRemove(a, c)
disconnect_noop(a, c) == [list |-> a, error |-> "none"]
disconnect(a, c) ==
    IF ListContains(a, c) THEN ListRemove(a, c)
    ELSE [list |-> a, error |-> "none"]

\* broadcast(): the list the for loop runs over, given the copy s taken when
\* the call started and the registry a as it is now.
IterSource_live(s, a) == a
IterSource(s, a) == s

\* broadcast(): the handling of a send that raised; the registry afterwards.
OnSendError_ignore(a, c) == [list |-> a, error |-> "none"]
OnSendError(a, c) == disconnect(a, c)

----------------------------------------------------------------------------
\* websocket_endpoint: the messages it broadcasts.

JoinedMsg == [type |-> "system", message |-> "Player joined", text |-> 0]
LeftMsg_asJoined == [type |-> "system", message |-> "Player joined", text |-> 0]
LeftMsg == [type |-> "system", message |-> "Player left", text |-> 0]
ChatMsg(n) == [type |-> "chat", message |-> "", text |-> n]

NoMsg == [type |-> "none", message |-> "", text |-> 0]

\* Where the driver continues when the broadcast call at site s returns: the
\* read loop after the join notice and after a chat, the end of the handler
\* after the leave notice.
AfterBroadcast(s) == IF s = "left" THEN "done" ELSE "recv"

\* The driver is suspended in `await websocket.receive_text()`.
CanReceive_unawaited(d) == pc[d] \in {"recv", "send"}
CanReceive(d) == pc[d] = "recv"

----------------------------------------------------------------------------
Init ==
    /\ active = <<>>
    /\ pc = [d \in Conns |-> "accept"]
    /\ site = [d \in Conns |-> "none"]
    /\ msg = [d \in Conns |-> NoMsg]
    /\ snap = [d \in Conns |-> <<>>]
    /\ idx = [d \in Conns |-> 0]
    /\ att = [d \in Conns |-> <<>>]
    /\ startReg = [d \in Conns |-> {}]
    /\ failedIn = [d \in Conns |-> {}]
    /\ removedAtStart = [d \in Conns |-> {}]
    /\ lateReg = [d \in Conns |-> {}]
    /\ registered = {}
    /\ removed = {}
    /\ removeLog = [c \in Conns |-> <<>>]
    /\ sendFailed = FALSE
    /\ events = [d \in Conns |-> <<>>]
    /\ bcastLog = [d \in Conns |-> <<>>]
    /\ recvd = [p \in Conns |-> [s \in Conns |-> <<>>]]
    /\ stalled = {}
    /\ raised = [d \in Conns |-> "none"]

\* The loop of broadcast() at position i, the registry being a: either the
\* next send_text is called (the driver suspends on it) or the call returns.
LoopFrom(d, s, i, a, log) ==
    LET src == IterSource(snap'[d], a)
    IN  /\ idx' = [idx EXCEPT ![d] = i]
        /\ IF i <= Len(src)
           THEN /\ att' = [att EXCEPT ![d] = Append(log, src[i])]
                /\ pc' = [pc EXCEPT ![d] = "send"]
           ELSE /\ att' = [att EXCEPT ![d] = log]
                /\ pc' = [pc EXCEPT ![d] = AfterBroadcast(s)]

\* `await manager.broadcast(m)` called by driver d at call site s, the
\* registry being a and rem the connections deregistered so far: json.dumps,
\* the snapshot, and the loop up to its first send.  (lateReg: the call at
\* the "joined" site directly follows d's registration, which is late for
\* every broadcast another driver is suspended in.)
BeginBroadcast(d, s, m, a, rem) ==
    /\ site' = [site EXCEPT ![d] = s]
    /\ msg' = [msg EXCEPT ![d] = m]
    /\ snap' = [snap EXCEPT ![d] = a]
    /\ startReg' = [startReg EXCEPT ![d] = Range(a)]
    /\ failedIn' = [failedIn EXCEPT ![d] = {}]
    /\ removedAtStart' = [removedAtStart EXCEPT ![d] = rem]
    /\ lateReg' = [e \in Conns |->
                      IF e = d THEN {}
                      ELSE IF s = "joined" /\ pc[e] = "send"
                           THEN lateReg[e] \cup {d} ELSE lateReg[e]]
    /\ bcastLog' = [bcastLog EXCEPT ![d] = Append(@, m)]
    /\ LoopFrom(d, s, 1, a, <<>>)

\* The log q of callers with one more caller; only the first two are kept.
Logged(q, who) == IF Len(q) < 2 THEN Append(q, who) ELSE q

\* The target of the send_text driver d is suspended on.
CurTarget(d) == Last(att[d])

\* websocket.accept() completes: connect() appends, then the join notice.
AcceptOk(d) ==
    /\ pc[d] = "accept"
    /\ active' = connect(active, d)
    /\ registered' = registered \cup {d}
    /\ events' = [events EXCEPT ![d] = Append(@, "connect")]
    /\ BeginBroadcast(d, "joined", JoinedMsg, active', removed)
    /\ UNCHANGED <<removed, removeLog, sendFailed, recvd, stalled, raised>>

\* websocket.accept() raises (the handshake fails): the exception leaves the
\* handler before anything is registered.
AcceptFail(d) ==
    /\ pc[d] = "accept"
    /\ pc' = [pc EXCEPT ![d] = "crashed"]
    /\ raised' = [raised EXCEPT ![d] = "AcceptError"]
    /\ UNCHANGED <<active, site, msg, snap, idx, att, startReg, failedIn,
                   removedAtStart, lateReg, registered, removed, removeLog,
                   sendFailed, events, bcastLog, recvd, stalled>>

\* connection.send_text(data) completes: the peer's transport took the frame.
SendOk(d) ==
    /\ pc[d] = "send"
    /\ CurTarget(d) \notin stalled
    /\ recvd' = IF msg[d].type = "chat"
                THEN [recvd EXCEPT ![CurTarget(d)][d] = Append(@, msg[d].text)]
                ELSE recvd
    /\ snap' = snap
    /\ LoopFrom(d, site[d], idx[d] + 1, active, att[d])
    /\ UNCHANGED <<active, site, msg, startReg, failedIn, removedAtStart,
                   lateReg, registered, removed, removeLog, sendFailed, events,
                   bcastLog, stalled, raised>>

\* connection.send_text(data) raises an Exception: the handler deregisters
\* the target and the loop goes on.
SendFail(d) ==
    /\ pc[d] = "send"
    /\ CurTarget(d) \notin stalled
    /\ LET r == OnSendError(active, CurTarget(d))
       IN  /\ active' = r.list
           /\ snap' = snap
           /\ IF r.error = "none"
              THEN /\ LoopFrom(d, site[d], idx[d] + 1, r.list, att[d])
                   /\ raised' = raised
              ELSE /\ pc' = [pc EXCEPT ![d] = "crashed"]
                   /\ raised' = [raised EXCEPT ![d] = r.error]
                   /\ UNCHANGED <<idx, att>>
    /\ removed' = removed \cup {CurTarget(d)}
    /\ removeLog' = [removeLog EXCEPT ![CurTarget(d)] = Logged(@, "send")]
    /\ failedIn' = [failedIn EXCEPT ![d] = @ \cup {CurTarget(d)}]
    /\ sendFailed' = TRUE
    /\ UNCHANGED <<site, msg, startReg, removedAtStart, lateReg, registered, events,
                   bcastLog, recvd, stalled>>

\* The number of text frames driver d has read so far.
IsText(e) == e = "text"
TextCount(d) == Len(SelectSeq(events[d], IsText))

\* websocket.receive_text() returns a text frame: it is broadcast as a chat.
RecvText(d) ==
    /\ CanReceive(d)
    /\ TextCount(d) < MaxMsgs
    /\ events' = [events EXCEPT ![d] = Append(@, "text")]
    /\ BeginBroadcast(d, "chat",
                      ChatMsg(TextCount(d) + 1),
                      active, removed)
    /\ UNCHANGED <<active, registered, removed, removeLog, sendFailed,
                   recvd, stalled, raised>>

\* websocket.receive_text() raises WebSocketDisconnect: the except clause
\* deregisters the connection and broadcasts the leave notice.
RecvDisconnect(d) ==
    /\ CanReceive(d)
    /\ events' = [events EXCEPT ![d] = Append(@, "disconnect")]
    /\ LET r == disconnect(active, d)
       IN  /\ active' = r.list
           /\ removed' = removed \cup {d}
           /\ removeLog' = [removeLog EXCEPT ![d] = Logged(@, "driver")]
           /\ IF r.error = "none"
              THEN /\ BeginBroadcast(d, "left", LeftMsg, r.list, removed')
                   /\ raised' = raised
              ELSE /\ pc' = [pc EXCEPT ![d] = "crashed"]
                   /\ raised' = [raised EXCEPT ![d] = r.error]
                   /\ UNCHANGED <<site, msg, snap, idx, att, startReg,
                                  failedIn, removedAtStart, lateReg, bcastLog>>
    /\ UNCHANGED <<registered, sendFailed, recvd, stalled>>

\* websocket.receive_text() raises anything else (KeyError on a binary frame,
\* RuntimeError on a socket whose state is no longer CONNECTED): no except
\* clause matches and the exception leaves the handler.
RecvError(d) ==
    /\ CanReceive(d)
    /\ events' = [events EXCEPT ![d] = Append(@, "error")]
    /\ pc' = [pc EXCEPT ![d] = "crashed"]
    /\ raised' = [raised EXCEPT ![d] = "ReadError"]
    /\ UNCHANGED <<active, site, msg, snap, idx, att, startReg, failedIn,
                   removedAtStart, lateReg, registered, removed, removeLog,
                   sendFailed, bcastLog, recvd, stalled>>

\* The peer of a registered connection stops reading and its transport
\* buffers fill: from now on a send_text to it neither completes nor raises.
PeerStalls(c) ==
    /\ c \in registered
    /\ c \notin stalled
    /\ stalled' = stalled \cup {c}
    /\ UNCHANGED <<active, pc, site, msg, snap, idx, att, startReg, failedIn,
                   removedAtStart, lateReg, registered, removed, removeLog,
                   sendFailed, events, bcastLog, recvd, raised>>

Next ==
    \E d \in Conns :
        \/ AcceptOk(d)
        \/ AcceptFail(d)
        \/ SendOk(d)
        \/ SendFail(d)
        \/ RecvText(d)
        \/ RecvDisconnect(d)
        \/ RecvError(d)
        \/ PeerStalls(d)

Spec == Init /\ [][Next]_vars

\* A pending send to a peer that does not stall ends: the transport either
\* takes the frame or reports an error.  Nothing else is promised by the
\* event loop (a peer may stay silent for ever, a handshake may never end).
FairSpec == Spec /\ \A d \in Conns : WF_vars(SendOk(d) \/ SendFail(d))

----------------------------------------------------------------------------
\* Driver d is not inside a broadcast call and has completed at least one.
Returned(d) == pc[d] \in {"recv", "done"}

Count(log, m) == Len(SelectSeq(log, LAMBDA x : x = m))

StrictlyIncreasing(q) == \A i, j \in 1..Len(q) : i < j => q[i] < q[j]

\* C1 - Failure isolation: when a broadcast call in which some send failed
\* has returned, (a) send_text was called on every other connection of the
\* registry as it was when the call started, and (b) every target whose send
\* failed is absent from the registry.
C1_FailureIsolation ==
    \A d \in Conns :
        (Returned(d) /\ failedIn[d] # {}) =>
            /\ (startReg[d] \ failedIn[d]) \subseteq Range(att[d])
            /\ \A c \in failedIn[d] : ~ListContains(active, c)

\* A call over the full registry returned with one failed target and a
\* delivery attempt to another one after that failure.
C1_Witness ==
    \E d \in Conns :
        /\ Returned(d)
        /\ Cardinality(startReg[d]) = MaxConns
        /\ Cardinality(failedIn[d]) = 1
        /\ att[d][1] \in failedIn[d]
        /\ Last(att[d]) \notin failedIn[d]

\* C2 - Fan-out over a point-in-time snapshot: a broadcast call never calls
\* send_text twice on one connection, only calls it on connections that were
\* registered when the call started, never on one registered while the call
\* was suspended, and has called it on every connection of its starting
\* registry once it has returned.
C2_SnapshotFanOut ==
    \A d \in Conns :
        /\ NoDup(att[d])
        /\ Range(att[d]) \subseteq startReg[d]
        /\ Range(att[d]) \cap lateReg[d] = {}
        /\ Returned(d) => Range(att[d]) = startReg[d]

\* A call returned although a connection registered, and is still
\* registered, that joined while the call was suspended on a send.
C2_Witness ==
    \E d \in Conns : \E c \in Conns :
        /\ Returned(d)
        /\ att[d] # <<>>
        /\ c \in lateReg[d]
        /\ ListContains(active, c)

\* C3 - Guaranteed deregistration on every termination path: a driver that
\* has left its read loop (the handler has ended, by return or by an
\* exception) has deregistered its connection and broadcast "Player left".
C3_DeregisteredOnEveryExit ==
    \A d \in Conns :
        (pc[d] \in {"done", "crashed"} /\ d \in registered) =>
            /\ ~ListContains(active, d)
            /\ d \in removed
            /\ Count(bcastLog[d],
                     [type |-> "system", message |-> "Player left", text |-> 0]) = 1

\* C4 - A slow peer cannot block a broadcast: every broadcast call that is
\* suspended on a send eventually returns to its caller, whatever the peers
\* do (a send that never completes is given up after a bounded wait).
C4_BroadcastNeverBlocked ==
    \A d \in Conns : (pc[d] = "send") ~> (pc[d] # "send")

\* C5 - Registry integrity: no connection is in the registry twice, and as
\* long as no send has failed the registry holds exactly the connections
\* registered and not deregistered.
C5_RegistryIntegrity ==
    /\ NoDup(active)
    /\ ~sendFailed =>
           /\ Len(active) = Cardinality(registered) - Cardinality(removed)
           /\ Range(active) = registered \ removed

\* Every connection registered, one of them deregistered by its driver while
\* another driver is inside a broadcast, no send having failed.
C5_Witness ==
    /\ ~sendFailed
    /\ registered = Conns
    /\ Cardinality(removed) = 1
    /\ \E d \in Conns : pc[d] = "send" /\ d \notin removed

\* C6 - Join/leave notices: a driver has broadcast "Player joined" exactly
\* once if its connection was registered (else never), "Player left" exactly
\* once if its peer disconnected (else never), and one chat per text frame it
\* read, so that connecting and disconnecting cause no chat broadcast.
C6_JoinLeaveNotices ==
    \A d \in Conns :
        /\ Count(bcastLog[d],
                 [type |-> "system", message |-> "Player joined", text |-> 0])
               = IF d \in registered THEN 1 ELSE 0
        /\ Count(bcastLog[d],
                 [type |-> "system", message |-> "Player left", text |-> 0])
               = IF \E i \in 1..Len(events[d]) : events[d][i] = "disconnect"
                 THEN 1 ELSE 0
        /\ Len(bcastLog[d]) = Len(SelectSeq(events[d], LAMBDA e : e # "error"))
        /\ Len(SelectSeq(bcastLog[d], LAMBDA m : m.type = "chat")) = TextCount(d)

\* A connection that a failed send had removed from the registry before its
\* peer disconnected, and whose driver has ended after the leave notice.
C6_Witness ==
    \E d \in Conns :
        /\ pc[d] = "done"
        /\ removeLog[d] = <<"send", "driver">>
        /\ TextCount(d) = 1
        /\ att[d] # <<>>

\* C7 - No self-exclusion: the snapshot of a connection's own "Player
\* joined" broadcast contains that connection, and once that broadcast has
\* returned send_text has been called on it.
C7_NoSelfExclusion ==
    \A d \in Conns :
        site[d] = "joined" =>
            /\ ListContains(snap[d], d)
            /\ d \in startReg[d]
            /\ Returned(d) => d \in Range(att[d])

\* A join broadcast that started while another driver was suspended inside a
\* broadcast of its own, and that has returned.
C7_Witness ==
    \E d \in Conns : \E e \in Conns \ {d} :
        /\ site[d] = "joined"
        /\ Returned(d)
        /\ d \in lateReg[e]
        /\ pc[e] = "send"

\* C8 - Cancellation by deregistration: a broadcast call never calls
\* send_text on a connection whose deregistration had completed when the call
\* started; in particular the "Player left" broadcast of a connection is
\* never attempted on that connection.
C8_CancellationByDeregistration ==
    \A d \in Conns :
        /\ Range(att[d]) \cap removedAtStart[d] = {}
        /\ site[d] = "left" => d \notin Range(att[d])

\* A leave broadcast with a delivery attempt, while another broadcast whose
\* snapshot predates the deregistration still attempts the leaver.
C8_Witness ==
    \E d \in Conns : \E e \in Conns \ {d} :
        /\ site[d] = "left"
        /\ att[d] # <<>>
        /\ d \in removedAtStart[d]
        /\ pc[e] = "send"
        /\ CurTarget(e) = d
        /\ d \notin removedAtStart[e]

\* C9 - Idempotent deregistration: in every reachable registry and for every
\* connection, a second disconnect() changes nothing after the first, neither
\* call raises, the membership of every other connection is untouched, and
\* disconnect() of an unregistered connection leaves the registry as it is;
\* no driver has ever been ended by the ValueError of list.remove.
C9_IdempotentDeregistration ==
    /\ \A c \in Conns :
           LET r1 == disconnect(active, c)
               r2 == disconnect(r1.list, c)
           IN  /\ r1.error = "none"
               /\ r2.error = "none"
               /\ r2.list = r1.list
               /\ ~ListContains(r1.list, c)
               /\ \A o \in Conns \ {c} :
                      ListContains(r1.list, o) <=> ListContains(active, o)
               /\ ~ListContains(active, c) => r1.list = active
    /\ \A d \in Conns : raised[d] # "ValueError"

\* disconnect() has been called twice on one connection, by a broadcast's
\* failed-send path and by the connection's own driver, which went on.
C9_Witness ==
    \E c \in Conns :
        /\ removeLog[c] = <<"send", "driver">>
        /\ site[c] = "left"
        /\ \E o \in Conns \ {c} : ListContains(active, o)

\* C10 - Per-sender order: a driver reads its next text frame only when it is
\* not inside a broadcast call, and the chat texts of one sender reach every
\* peer in the order in which the sender's driver read them.
C10_PerSenderOrder ==
    /\ [](\A p \in Conns : \A s \in Conns : StrictlyIncreasing(recvd[p][s]))
    /\ [][\A d \in Conns : TextCount(d)' # TextCount(d) => pc[d] = "recv"]_vars

\* A peer got two chats of another sender, and a chat of its own as well.
C10_Witness ==
    \E p \in Conns : \E s \in Conns \ {p} :
        /\ recvd[p][s] = <<1, 2>>
        /\ recvd[p][p] # <<>>

====
